---- MODULE Spec2Model ----
(***************************************************************************)
(* Model of fleure-db's merge-and-persist pipeline                         *)
(* (fleure_db/create.py): _load_and_merge_repos_data merges the normalized *)
(* updates of an ordered list of repositories, save_uidata_to_sqlite       *)
(* writes the merged updates into the SQLite store.                        *)
(*                                                                         *)
(* A repository's updateinfo holds at most one update per update id, so a  *)
(* feed is a function from update ids to the variant of the update it      *)
(* carries (or Absent).                                                    *)
(***************************************************************************)
EXTENDS Integers, Sequences, FiniteSets, TLC

(* ---- bounds of the model ---- *)
MaxRepos == 2
MaxUpdId == 2
MaxRuns == 2

RepoNames == {"alpha", "beta"}
UpdIds == 1..MaxUpdId
Absent == "absent"
Variants == {"v1", "v2"}
NoShort == "None"
None == "None"

VARIABLES
  repos,    \* the caller's ordered list of repo ids
  feed,     \* feed[r][i]: variant of update i in repo r's updateinfo, or Absent
  short,    \* short[r]: the collection's "short" name in repo r's updateinfo
  source,   \* source[r]: what becomes of loading repo r's updateinfo.xml.gz
  ups,      \* the merge table {update id: update} of _load_and_merge_repos_data
  ri,       \* index in repos of the next repository to merge
  merged,   \* the list _load_and_merge_repos_data returned
  pc,       \* position of the program
  k,        \* index in merged of the update being saved
  j,        \* index of the package, reference or repo being inserted
  conn,     \* the database as the connection sees it (uncommitted rows included)
  disk,     \* the committed database
  run,      \* number of the current run of save_uidata_to_sqlite
  error,    \* the exception that ended the run, or "none"
  first,    \* outcome of the first run: [ok, db]
  arg,      \* the argument of a function that is applied on its own
  ret       \* what that function returned or raised

vars == <<repos, feed, short, source, ups, ri, merged, pc, k, j, conn, disk, run,
          error, first, arg, ret>>

(* ---- the normalized updates of one repository ---- *)

(* One package / reference as process_uixmlgz_itr leaves it.  The package  *)
(* id is derived from NEVRA only, so the same id can come with another src.*)
Pkg(id, src) == [id |-> id, src |-> src]
Ref(id, title) == [id |-> id, title |-> title]

(* The content of update i in variant v: the fields that are passed through *)
(* plus the package list and the references.                                *)
UpdateContent(i, v) ==
  IF v = "v1"
  THEN [id |-> i, title |-> "t1", severity |-> "Important",
        pkglist |-> << Pkg(i, "s1") >>,
        references |-> << Ref("CVE-1", "r1") >>]
  ELSE [id |-> i, title |-> "t2", severity |-> None,
        pkglist |-> << Pkg(1, "s2"), Pkg(1, "s2") >>,
        references |-> << Ref("CVE-1", "r2"), Ref("CVE-1", "r2") >>]

(* rid = _get_value(pkc, "short") or repo *)
RepoIdOf(r) == IF short[r] = NoShort THEN r ELSE short[r]

(* The update process_uixmlgz_itr yields for update i of repo r *)
NormalizedUpdate(r, i) ==
  LET c == UpdateContent(i, feed[r][i])
  IN  [id |-> c.id, title |-> c.title, severity |-> c.severity,
       pkglist |-> c.pkglist, references |-> c.references,
       repos |-> << [uid |-> i, repo_id |-> RepoIdOf(r),
                     repo_name |-> IF r = "alpha" THEN "Alpha repo"
                                   ELSE "Beta repo"] >>]

(* sorted(..., key=operator.itemgetter("id")) over a collection of updates *)
RECURSIVE SortById_Descending(_)
RECURSIVE SortById(_)
(* mutant of SortById: the updates come out in descending order of id *)
SortById_Descending(S) ==
  IF S = {} THEN << >>
  ELSE LET m == CHOOSE x \in S : \A y \in S : x.id >= y.id
       IN  << m >> \o SortById_Descending(S \ {m})

SortById(S) ==
  IF S = {} THEN << >>
  ELSE LET m == CHOOSE x \in S : \A y \in S : x.id <= y.id
       IN  << m >> \o SortById(S \ {m})

(* What loading the updateinfo.xml.gz of a repository comes to: the file   *)
(* is found and holds updates, is not found, holds nothing that parses to  *)
(* an "updates" node, or holds an empty list of updates.                   *)
Found == [r \in RepoNames |-> "found"]

(* mutant of load_uixmlgz: the checks of the path and of the parsed data   *)
(* are left out                                                            *)
load_uixmlgz_Unchecked(r) ==
  [found |-> TRUE, updates |-> { x \in UpdIds : feed[r][x] # Absent }]

(* load_uixmlgz(repo, ...): False if the file is not found, [] if it does  *)
(* not parse to updates, else the updates. found is FALSE for False.       *)
load_uixmlgz(r) ==
  IF source[r] = "missing" THEN [found |-> FALSE, updates |-> {}]
  ELSE IF source[r] \in {"unparsed", "empty"} THEN [found |-> TRUE, updates |-> {}]
  ELSE [found |-> TRUE, updates |-> { x \in UpdIds : feed[r][x] # Absent }]

(* process_uixmlgz_itr(repo, ...): nothing if `not uidata`, else one       *)
(* update for each update of the file                                      *)
process_uixmlgz_itr(r) ==
  LET uidata == load_uixmlgz(r)
  IN  IF ~ uidata.found \/ uidata.updates = {} THEN {}
      ELSE { NormalizedUpdate(r, i) : i \in uidata.updates }

(* convert_uixmlgz(repo, ...): the repo's updates, sorted by id *)
convert_uixmlgz(r) == SortById(process_uixmlgz_itr(r))

(* ---- the merge ---- *)

(* Python's `x in lst` for a str x and a list of dicts: a str never equals *)
(* a dict, so the test compares unequal types and finds nothing.           *)
StrEqDict(s, d) == FALSE
InList(s, lst) == \E n \in DOMAIN lst : StrEqDict(s, lst[n])

RECURSIVE AppendRepos(_, _)
(* for urepo in urepos: if urepo["repo_id"] not in repos: repos.append(urepo) *)
AppendRepos(lst, urepos) ==
  IF urepos = << >> THEN lst
  ELSE AppendRepos(IF ~ InList(Head(urepos).repo_id, lst)
                   THEN Append(lst, Head(urepos)) ELSE lst,
                   Tail(urepos))

(* mutants of MergeUpdate: the later copy replaces the record; the later   *)
(* copy's repos are dropped.                                               *)
MergeUpdate_LastWins(tbl, upd) ==
  IF upd.id \in DOMAIN tbl
  THEN [tbl EXCEPT ![upd.id] =
          [upd EXCEPT !.repos = AppendRepos(tbl[upd.id].repos, upd.repos)]]
  ELSE [x \in DOMAIN tbl \cup {upd.id} |-> IF x = upd.id THEN upd ELSE tbl[x]]

MergeUpdate_NoUnion(tbl, upd) ==
  IF upd.id \in DOMAIN tbl
  THEN tbl
  ELSE [x \in DOMAIN tbl \cup {upd.id} |-> IF x = upd.id THEN upd ELSE tbl[x]]

(* The body of the inner loop of _load_and_merge_repos_data for one update *)
(* (without the tokenize option, which adds a tokens field to an update    *)
(* that is new to the table).                                              *)
MergeUpdate(tbl, upd) ==
  IF upd.id \in DOMAIN tbl
  THEN [tbl EXCEPT ![upd.id].repos = AppendRepos(@, upd.repos)]
  ELSE [x \in DOMAIN tbl \cup {upd.id} |-> IF x = upd.id THEN upd ELSE tbl[x]]

RECURSIVE MergeRepo(_, _)
(* for upd in convert_uixmlgz(repo, ...): ... *)
MergeRepo(tbl, updates) ==
  IF updates = << >> THEN tbl
  ELSE MergeRepo(MergeUpdate(tbl, Head(updates)), Tail(updates))

(* dict((u["id"], u) for u in convert_uixmlgz(repos[0], ...)) *)
DictById(updates) ==
  [x \in { updates[n].id : n \in DOMAIN updates } |->
     LET n == CHOOSE m \in DOMAIN updates :
                /\ updates[m].id = x
                /\ \A m2 \in DOMAIN updates : updates[m2].id = x => m2 <= m
     IN  updates[n]]

EmptyDict == [x \in {} |-> None]

(* ---- the SQLite store ---- *)

(* Python's `v is None`, for a value of any type *)
IsNone(v) == ToString(v) = ToString(None)

(* Column names of the tables, in the order of their CREATE TABLE          *)
(* statement.  Of the text columns the model carries one per table (src,   *)
(* title, and title and the optional severity of an update); the others    *)
(* are stored the same way.                                                *)
_PKG_KEYS == << "id", "src" >>
_REF_KEYS == << "id", "title" >>
_UPD_KEYS == << "id", "title", "severity" >>
_REPO_KEYS == << "id", "repo_id", "repo_name" >>

TableNames == {"updates", "packages", "refs",
               "update_packages", "update_refs", "update_repos"}

(* _create_tables: the columns each table is created with *)
TableCols(name) ==
  CASE name = "updates" -> _UPD_KEYS
    [] name = "packages" -> _PKG_KEYS
    [] name = "refs" -> _REF_KEYS
    [] name = "update_packages" -> << "uid", "pid" >>
    [] name = "update_refs" -> << "uid", "rid" >>
    [] name = "update_repos" -> << "uid", "repo_id", "repo_name" >>

(* _create_tbl_stmt declares the column named pkey PRIMARY KEY; the join   *)
(* tables are created without any key or uniqueness constraint.            *)
PKey(name) == IF name \in {"updates", "packages", "refs"} THEN "id" ELSE "none"

(* FOREIGN KEY(child column) REFERENCES parent(id) *)
ForeignKeys(name) ==
  CASE name = "update_packages" -> { << "uid", "updates" >>, << "pid", "packages" >> }
    [] name = "update_refs" -> { << "uid", "updates" >>, << "rid", "refs" >> }
    [] name = "update_repos" -> { << "uid", "updates" >> }
    [] OTHER -> {}

EmptyDB == [t \in TableNames |-> << >>]

SeqToSet(s) == { s[n] : n \in DOMAIN s }

(* The row an INSERT statement builds: positional values fill the table's  *)
(* columns in order, named values fill their columns and leave the others  *)
(* NULL.                                                                   *)
RowOf(name, keys, values, named) ==
  LET cols == TableCols(name)
  IN  [c \in SeqToSet(cols) |->
         IF named
         THEN IF \E n \in DOMAIN keys : keys[n] = c /\ ~ IsNone(values[n])
              THEN values[CHOOSE n \in DOMAIN keys : keys[n] = c]
              ELSE None
         ELSE values[CHOOSE n \in DOMAIN cols : cols[n] = c]]

(* The statement is malformed for the table: a named column the table does *)
(* not have, or a number of positional values other than that of columns.  *)
StmtError(name, keys, values, named) ==
  IF named
  THEN \E n \in DOMAIN keys :
         ~ IsNone(values[n]) /\ keys[n] \notin SeqToSet(TableCols(name))
  ELSE Len(values) # Len(TableCols(name))

(* A row with the same primary key is already in the table *)
PKeyConflict(db, name, row) ==
  /\ PKey(name) # "none"
  /\ \E n \in DOMAIN db[name] : db[name][n][PKey(name)] = row[PKey(name)]

(* PRAGMA foreign_keys = ON: a child row needs its parent rows *)
FKeyViolation(db, name, row) ==
  \E fk \in ForeignKeys(name) :
    ~ \E n \in DOMAIN db[fk[2]] : db[fk[2]][n].id = row[fk[1]]

(* mutants of InsertOrIgnore: INSERT OR REPLACE; an INSERT that takes no   *)
(* notice of the primary key.                                              *)
InsertOrIgnore_Replace(db, name, row) ==
  IF PKeyConflict(db, name, row)
  THEN [db |-> [db EXCEPT ![name] =
                  [n \in DOMAIN @ |->
                     IF @[n][PKey(name)] = row[PKey(name)] THEN row ELSE @[n]]],
        raised |-> "none"]
  ELSE IF FKeyViolation(db, name, row)
  THEN [db |-> db, raised |-> "IntegrityError"]
  ELSE [db |-> [db EXCEPT ![name] = Append(@, row)], raised |-> "none"]

InsertOrIgnore_Plain(db, name, row) ==
  IF FKeyViolation(db, name, row)
  THEN [db |-> db, raised |-> "IntegrityError"]
  ELSE [db |-> [db EXCEPT ![name] = Append(@, row)], raised |-> "none"]

(* INSERT OR IGNORE INTO name ...: the effect of the statement on the      *)
(* database the connection sees, and the exception it raises if any.       *)
InsertOrIgnore(db, name, row) ==
  IF PKeyConflict(db, name, row)
  THEN [db |-> db, raised |-> "none"]
  ELSE IF FKeyViolation(db, name, row)
  THEN [db |-> db, raised |-> "IntegrityError"]
  ELSE [db |-> [db EXCEPT ![name] = Append(@, row)], raised |-> "none"]

(* _insert_values(cur, name, keys, values) *)
_insert_values(db, name, keys, values) ==
  LET named == \E n \in DOMAIN values : IsNone(values[n])
  IN  IF StmtError(name, keys, values, named)
      THEN [db |-> db, raised |-> "OperationalError"]
      ELSE InsertOrIgnore(db, name, RowOf(name, keys, values, named))

(* tuple(item[k] for k in keys) / [_get_value(upd, k) for k in ukeys] *)
ValuesOf(item, keys) == [n \in DOMAIN keys |-> item[keys[n]]]

(* ---- the program ---- *)

RepoLists == UNION { [1..n -> RepoNames] : n \in 0..MaxRepos }

(* The state before _load_and_merge_repos_data starts, the store empty *)
Start ==
  /\ ups = EmptyDict
  /\ ri = 1
  /\ merged = << >>
  /\ pc = "load_first"
  /\ k = 1
  /\ j = 1
  /\ conn = EmptyDB
  /\ disk = EmptyDB
  /\ run = 1
  /\ error = "none"
  /\ first = [ok |-> FALSE, db |-> EmptyDB]
  /\ arg = << >>
  /\ ret = << >>

(* Any list of repositories, each with any updateinfo and short name *)
InitMerge ==
  /\ repos \in RepoLists
  /\ feed \in [RepoNames -> [UpdIds -> Variants \cup {Absent}]]
  /\ short \in [RepoNames -> {NoShort, "x"}]
  /\ source = Found
  /\ Start

(* Any list of repositories, the updateinfo of each found or not, parsed   *)
(* or not                                                                  *)
InitLoad ==
  /\ repos \in RepoLists
  /\ feed \in [RepoNames -> [UpdIds -> Variants \cup {Absent}]]
  /\ short = [r \in RepoNames |-> NoShort]
  /\ source \in [RepoNames -> {"found", "missing", "unparsed", "empty"}]
  /\ Start

(* Any list of repositories that all carry the same updateinfo, without    *)
(* short names: what differs between the copies of an update matters to    *)
(* the merge, not to the store.                                            *)
Init ==
  /\ repos \in RepoLists
  /\ feed \in [RepoNames -> [UpdIds -> Variants \cup {Absent}]]
  /\ \A r \in RepoNames : feed[r] = feed["alpha"]
  /\ short = [r \in RepoNames |-> NoShort]
  /\ source = Found
  /\ Start

inputs == << repos, feed, short, source >>
store == << conn, disk, run, error, first >>
call == << arg, ret >>

(* _load_and_merge_repos_data, up to and including the first repository:   *)
(* an empty list returns [] at once, else the table is seeded from         *)
(* repos[0].                                                               *)
LoadFirstRepo ==
  /\ pc = "load_first"
  /\ IF repos = << >>
     THEN /\ merged' = << >>
          /\ pc' = "create_tables"
          /\ UNCHANGED << ups, ri >>
     ELSE /\ ups' = DictById(convert_uixmlgz(repos[1]))
          /\ ri' = 2
          /\ pc' = "load_next"
          /\ UNCHANGED merged
  /\ UNCHANGED << inputs, call, store, k, j >>

(* One iteration of `for repo in repos[1:]` *)
MergeNextRepo ==
  /\ pc = "load_next"
  /\ ri <= Len(repos)
  /\ ups' = MergeRepo(ups, convert_uixmlgz(repos[ri]))
  /\ ri' = ri + 1
  /\ UNCHANGED << inputs, call, store, merged, pc, k, j >>

(* return sorted(ups.values(), key=operator.itemgetter("id")) *)
MergeReturn ==
  /\ pc = "load_next"
  /\ ri > Len(repos)
  /\ merged' = SortById({ ups[x] : x \in DOMAIN ups })
  /\ pc' = "create_tables"
  /\ UNCHANGED << inputs, call, store, ups, ri, k, j >>

(* convert_uixmlgz raises for the repository about to be merged (its own   *)
(* save_uidata_to_sqlite failed): the exception ends convert_uixmlgzs.     *)
ConvertRaises ==
  /\ pc \in {"load_first", "load_next"}
  /\ ri <= Len(repos)
  /\ pc' = "aborted"
  /\ error' = "ConvertError"
  /\ UNCHANGED << inputs, call, ups, ri, merged, k, j, conn, disk, run, first >>

(* `for upd in updates`: the next update, or the statements after the loop *)
LoopHead(kk) == IF kk <= Len(merged) THEN "ins_update" ELSE "final_commit"

(* One executed statement: its effect, or its exception, which leaves the  *)
(* `with sqlite3.connect(...)` block and rolls the open transaction back.  *)
Exec(res, nextpc, nextk, nextj) ==
  IF res.raised = "none"
  THEN /\ conn' = res.db
       /\ pc' = nextpc
       /\ k' = nextk
       /\ j' = nextj
       /\ UNCHANGED << disk, error >>
  ELSE /\ conn' = disk
       /\ pc' = "failed"
       /\ error' = res.raised
       /\ UNCHANGED << disk, k, j >>

(* _create_tables: CREATE TABLE IF NOT EXISTS keeps the rows of a store    *)
(* that has the tables already; conn.commit()                              *)
CreateTables ==
  /\ pc = "create_tables"
  /\ disk' = conn
  /\ k' = 1
  /\ j' = 1
  /\ pc' = LoopHead(1)
  /\ UNCHANGED << inputs, call, ups, ri, merged, conn, run, error, first >>

(* _insert_values(cur, "updates", ukeys, vals) *)
InsertUpdate ==
  /\ pc = "ins_update"
  /\ LET upd == merged[k]
     IN  Exec(_insert_values(conn, "updates", _UPD_KEYS, ValuesOf(upd, _UPD_KEYS)),
              IF Len(upd.pkglist) > 0 THEN "pkg_item" ELSE "commit_pkgs", k, 1)
  /\ UNCHANGED << inputs, call, ups, ri, merged, run, first >>

(* mutant of InsertPkg: the package row is not inserted before its        *)
(* (uid, pid) row                                                          *)
InsertPkg_NoRow ==
  /\ pc = "pkg_item"
  /\ pc' = "pkg_rel"
  /\ UNCHANGED << inputs, call, store, ups, ri, merged, k, j >>

(* _insert_list_values_with_rels(.., "pkglist", ..): the package row *)
InsertPkg ==
  /\ pc = "pkg_item"
  /\ LET item == merged[k].pkglist[j]
     IN  Exec(_insert_values(conn, "packages", _PKG_KEYS, ValuesOf(item, _PKG_KEYS)),
              "pkg_rel", k, j)
  /\ UNCHANGED << inputs, call, ups, ri, merged, run, first >>

(* ... and its (uid, pid) row *)
InsertPkgRel ==
  /\ pc = "pkg_rel"
  /\ LET upd == merged[k]
     IN  Exec(_insert_values(conn, "update_packages", << "uid", "pid" >>,
                             << upd.id, upd.pkglist[j].id >>),
              IF j < Len(upd.pkglist) THEN "pkg_item" ELSE "commit_pkgs",
              k, IF j < Len(upd.pkglist) THEN j + 1 ELSE 1)
  /\ UNCHANGED << inputs, call, ups, ri, merged, run, first >>

(* conn.commit() after the packages *)
CommitPkgs ==
  /\ pc = "commit_pkgs"
  /\ disk' = conn
  /\ pc' = IF Len(merged[k].references) > 0 THEN "ref_item" ELSE "commit_refs"
  /\ j' = 1
  /\ UNCHANGED << inputs, call, ups, ri, merged, k, conn, run, error, first >>

(* _insert_list_values_with_rels(.., "references", ..): the reference row *)
InsertRef ==
  /\ pc = "ref_item"
  /\ LET item == merged[k].references[j]
     IN  Exec(_insert_values(conn, "refs", _REF_KEYS, ValuesOf(item, _REF_KEYS)),
              "ref_rel", k, j)
  /\ UNCHANGED << inputs, call, ups, ri, merged, run, first >>

(* ... and its (uid, rid) row *)
InsertRefRel ==
  /\ pc = "ref_rel"
  /\ LET upd == merged[k]
     IN  Exec(_insert_values(conn, "update_refs", << "uid", "rid" >>,
                             << upd.id, upd.references[j].id >>),
              IF j < Len(upd.references) THEN "ref_item" ELSE "commit_refs",
              k, IF j < Len(upd.references) THEN j + 1 ELSE 1)
  /\ UNCHANGED << inputs, call, ups, ri, merged, run, first >>

(* conn.commit() after the references *)
CommitRefs ==
  /\ pc = "commit_refs"
  /\ disk' = conn
  /\ pc' = IF Len(merged[k].repos) > 0 THEN "ins_repo" ELSE LoopHead(k + 1)
  /\ k' = IF Len(merged[k].repos) > 0 THEN k ELSE k + 1
  /\ j' = 1
  /\ UNCHANGED << inputs, call, ups, ri, merged, conn, run, error, first >>

(* vals = [upd["id"]] + [repo[k] for k in repokeys if k != "id"];          *)
(* _insert_values(cur, "update_repos", repokeys, vals)                     *)
InsertRepo ==
  /\ pc = "ins_repo"
  /\ LET upd == merged[k]
         repo == upd.repos[j]
         last == j >= Len(upd.repos)
     IN  Exec(_insert_values(conn, "update_repos", _REPO_KEYS,
                             << upd.id, repo.repo_id, repo.repo_name >>),
              IF last THEN LoopHead(k + 1) ELSE "ins_repo",
              IF last THEN k + 1 ELSE k,
              IF last THEN 1 ELSE j + 1)
  /\ UNCHANGED << inputs, call, ups, ri, merged, run, first >>

(* conn.commit() after the loop; the with block ends *)
FinalCommit ==
  /\ pc = "final_commit"
  /\ disk' = conn
  /\ pc' = "done"
  /\ UNCHANGED << inputs, call, ups, ri, merged, k, j, conn, run, error, first >>

InsertPcs == {"ins_update", "pkg_item", "pkg_rel", "ref_item", "ref_rel", "ins_repo"}

(* The store rejects the statement about to be executed (sqlite3's         *)
(* OperationalError: disk full, I/O error, ...): _exec_sql_stmt logs and   *)
(* re-raises, the with block rolls back what is not committed.             *)
StmtRejected ==
  /\ pc \in InsertPcs
  /\ conn' = disk
  /\ pc' = "failed"
  /\ error' = "OperationalError"
  /\ UNCHANGED << inputs, call, ups, ri, merged, k, j, disk, run, first >>

(* save_uidata_to_sqlite is run again with the same updates on the store   *)
(* the run before left behind.                                             *)
Rerun ==
  /\ pc \in {"done", "failed"}
  /\ run < MaxRuns
  /\ run' = run + 1
  /\ first' = IF run = 1 THEN [ok |-> pc = "done", db |-> disk] ELSE first
  /\ error' = "none"
  /\ pc' = "create_tables"
  /\ k' = 1
  /\ j' = 1
  /\ UNCHANGED << inputs, call, ups, ri, merged, conn, disk >>

Next ==
  \/ LoadFirstRepo
  \/ MergeNextRepo
  \/ MergeReturn
  \/ ConvertRaises
  \/ CreateTables
  \/ InsertUpdate
  \/ InsertPkg
  \/ InsertPkgRel
  \/ CommitPkgs
  \/ InsertRef
  \/ InsertRefRel
  \/ CommitRefs
  \/ InsertRepo
  \/ FinalCommit
  \/ StmtRejected
  \/ Rerun

(* convert_uixmlgzs: the merge, then the store *)
Spec == Init /\ [][Next]_vars

NextMerge ==
  \/ LoadFirstRepo
  \/ MergeNextRepo
  \/ MergeReturn
  \/ ConvertRaises

(* _load_and_merge_repos_data alone, over all inputs *)
SpecMerge == InitMerge /\ [][NextMerge]_vars

(* _load_and_merge_repos_data over repositories that may fail to load *)
SpecLoad == InitLoad /\ [][NextMerge]_vars

(* ---- properties of the merge ---- *)

(* _load_and_merge_repos_data has returned: merged is its result *)
MergeDone == pc \notin {"load_first", "load_next", "aborted"}

(* The positions in the caller's list of the repositories that carry update i *)
ReposWith(i) == { m \in DOMAIN repos : feed[repos[m]][i] # Absent }

(* The first repository in caller order that carries update i *)
FirstRepoWith(i) ==
  repos[CHOOSE m \in ReposWith(i) : \A m2 \in ReposWith(i) : m <= m2]

(* The content fields of an update: every field but its repos *)
Content(upd) ==
  [id |-> upd.id, title |-> upd.title, severity |-> upd.severity,
   pkglist |-> upd.pkglist, references |-> upd.references]

RepoIds(upd) == { upd.repos[a].repo_id : a \in DOMAIN upd.repos }

(* C1 (as claimed): after the merge no merged update holds two RepoLinks   *)
(* with the same repo_id.                                                  *)
C1_NoDuplicateRepoId ==
  MergeDone =>
    \A n \in DOMAIN merged :
      \A a, b \in DOMAIN merged[n].repos :
        a # b => merged[n].repos[a].repo_id # merged[n].repos[b].repo_id

(* C2: every update that some repository carries is merged into exactly    *)
(* one record, and the set of repo_ids of a merged update is the union of  *)
(* the repo_ids of its copies in the input repositories.                   *)
C2_RepoIdsAreUnion ==
  MergeDone =>
    /\ \A i \in UpdIds :
         ReposWith(i) # {} =>
           Cardinality({ n \in DOMAIN merged : merged[n].id = i }) = 1
    /\ \A n \in DOMAIN merged :
         RepoIds(merged[n]) =
           { RepoIdOf(repos[m]) : m \in ReposWith(merged[n].id) }

(* C2 witness: update X of repo alpha and of repo beta merged into one     *)
(* record linked to {alpha, beta}.                                         *)
C2_Witness ==
  /\ MergeDone
  /\ repos = << "alpha", "beta" >>
  /\ \E n \in DOMAIN merged :
       /\ ReposWith(merged[n].id) = {1, 2}
       /\ RepoIds(merged[n]) = {"alpha", "beta"}

(* C3: first writer wins.  At any time the content fields of a record of   *)
(* the merge table are those of the copy of the first repository in caller *)
(* order that carries the update, and so are those of the merged result.   *)
C3_FirstWriterWins ==
  /\ \A x \in DOMAIN ups :
       Content(ups[x]) = UpdateContent(x, feed[FirstRepoWith(x)][x])
  /\ MergeDone =>
       \A n \in DOMAIN merged :
         Content(merged[n]) =
           UpdateContent(merged[n].id,
                         feed[FirstRepoWith(merged[n].id)][merged[n].id])

(* C3 witness: a merged update whose two repositories carry different      *)
(* content for it.                                                         *)
C3_Witness ==
  /\ MergeDone
  /\ Len(repos) >= 2
  /\ \E n \in DOMAIN merged :
       /\ ReposWith(merged[n].id) = {1, 2}
       /\ feed[repos[1]][merged[n].id] # feed[repos[2]][merged[n].id]
       /\ Len(merged[n].repos) = 2

(* C4: the result holds exactly one record per update id that occurs in    *)
(* an input repository, in strictly ascending order of id; no repository   *)
(* gives an empty result.                                                  *)
C4_OnePerIdAscending ==
  MergeDone =>
    /\ { merged[n].id : n \in DOMAIN merged } = { i \in UpdIds : ReposWith(i) # {} }
    /\ Len(merged) = Cardinality({ i \in UpdIds : ReposWith(i) # {} })
    /\ \A a, b \in DOMAIN merged : a < b => merged[a].id < merged[b].id
    /\ repos = << >> => merged = << >>

(* C4 witness: the later repository brings the smaller id, so the result   *)
(* is not in the order of arrival.                                         *)
C4_Witness ==
  /\ MergeDone
  /\ Len(repos) = 2
  /\ Len(merged) = 2
  /\ ReposWith(1) = {2}
  /\ ReposWith(2) = {1}

(* ---- properties of the store ---- *)

HasRow(tbl, row) == \E n \in DOMAIN tbl : tbl[n] = row
HasId(tbl, id) == \E n \in DOMAIN tbl : tbl[n].id = id
NoDuplicateId(tbl) == \A a, b \in DOMAIN tbl : a # b => tbl[a].id # tbl[b].id
NoDuplicateRow(tbl) == \A a, b \in DOMAIN tbl : a # b => tbl[a] # tbl[b]

(* Every row save_uidata_to_sqlite writes for upd is in database db *)
FullyIn(db, upd) ==
  /\ HasId(db.updates, upd.id)
  /\ \A n \in DOMAIN upd.pkglist :
       /\ HasId(db.packages, upd.pkglist[n].id)
       /\ HasRow(db.update_packages, [uid |-> upd.id, pid |-> upd.pkglist[n].id])
  /\ \A n \in DOMAIN upd.references :
       /\ HasId(db.refs, upd.references[n].id)
       /\ HasRow(db.update_refs, [uid |-> upd.id, rid |-> upd.references[n].id])
  /\ \A n \in DOMAIN upd.repos :
       HasRow(db.update_repos, [uid |-> upd.id,
                                repo_id |-> upd.repos[n].repo_id,
                                repo_name |-> upd.repos[n].repo_name])

(* No row that belongs to upd alone is in database db *)
NothingIn(db, upd) ==
  /\ ~ HasId(db.updates, upd.id)
  /\ \A n \in DOMAIN db.update_packages : db.update_packages[n].uid # upd.id
  /\ \A n \in DOMAIN db.update_refs : db.update_refs[n].uid # upd.id
  /\ \A n \in DOMAIN db.update_repos : db.update_repos[n].uid # upd.id

(* C5 (as claimed): an update is atomic in the committed store: if its     *)
(* row is committed, so are all its package, reference and join rows,      *)
(* also after a failed insert.                                             *)
C5_UpdateAtomic ==
  MergeDone =>
    \A n \in DOMAIN merged :
      HasId(disk.updates, merged[n].id) => FullyIn(disk, merged[n])

(* The program is inside the statements of update k *)
InUpdate == pc \in InsertPcs \cup {"commit_pkgs", "commit_refs"}

(* C6 (as claimed): when the first insert of the next update is executed   *)
(* every row of the update before it is committed, and nothing of an       *)
(* update is committed before its last insert.                             *)
C6_OneTransactionPerUpdate ==
  /\ (pc = "ins_update" /\ k > 1) => FullyIn(disk, merged[k - 1])
  /\ (run = 1 /\ InUpdate) => NothingIn(disk, merged[k])

(* C7 (as claimed): a rejected statement ends the run with the error       *)
(* reported, and every update persisted before the failing one is fully    *)
(* in the store after the failure.                                         *)
C7_EarlierUpdatesDurable ==
  pc = "failed" =>
    /\ error # "none"
    /\ \A n \in DOMAIN merged : n < k => FullyIn(disk, merged[n])

PkgIds ==
  UNION { { merged[n].pkglist[m].id : m \in DOMAIN merged[n].pkglist } :
          n \in DOMAIN merged }
RefIds ==
  UNION { { merged[n].references[m].id : m \in DOMAIN merged[n].references } :
          n \in DOMAIN merged }
IdsOf(tbl) == { tbl[n].id : n \in DOMAIN tbl }

(* C8: after a run that succeeded the updates, packages and refs tables   *)
(* hold exactly one row per distinct id of the persisted set, and a        *)
(* second successful run leaves these tables as the first run left them.   *)
C8_EntityTablesIdempotent ==
  pc = "done" =>
    /\ NoDuplicateId(disk.updates)
    /\ NoDuplicateId(disk.packages)
    /\ NoDuplicateId(disk.refs)
    /\ IdsOf(disk.updates) = { merged[n].id : n \in DOMAIN merged }
    /\ IdsOf(disk.packages) = PkgIds
    /\ IdsOf(disk.refs) = RefIds
    /\ (run >= 2 /\ first.ok) =>
         /\ disk.updates = first.db.updates
         /\ disk.packages = first.db.packages
         /\ disk.refs = first.db.refs

(* C8 witness: a second successful run over a store the first run filled  *)
C8_Witness ==
  /\ pc = "done"
  /\ run = 2
  /\ first.ok
  /\ Len(disk.updates) >= 1
  /\ Len(disk.packages) >= 1
  /\ Len(disk.refs) >= 1

(* C9 (as claimed): no table holds a duplicate row, the join tables        *)
(* included, and a second run leaves the join tables as the first run      *)
(* left them.                                                              *)
C9_JoinTablesIdempotent ==
  pc = "done" =>
    /\ NoDuplicateRow(disk.update_packages)
    /\ NoDuplicateRow(disk.update_refs)
    /\ NoDuplicateRow(disk.update_repos)
    /\ (run >= 2 /\ first.ok) =>
         /\ disk.update_packages = first.db.update_packages
         /\ disk.update_refs = first.db.update_refs
         /\ disk.update_repos = first.db.update_repos

(* The table with a primary key the pending statement inserts into, and    *)
(* the item it inserts.                                                    *)
PendingTable ==
  CASE pc = "ins_update" -> "updates"
    [] pc = "pkg_item" -> "packages"
    [] pc = "ref_item" -> "refs"
    [] OTHER -> "none"
PendingItem ==
  CASE pc = "ins_update" -> merged[k]
    [] pc = "pkg_item" -> merged[k].pkglist[j]
    [] pc = "ref_item" -> merged[k].references[j]

(* C10: insert-or-ignore never updates.  A statement that inserts a row    *)
(* whose primary key is already in the table raises no error of its own    *)
(* (the run fails only if the store rejects the statement) and leaves      *)
(* every table as it was.                                                  *)
C10_InsertOrIgnoreNeverUpdates ==
  [][ (PendingTable # "none" /\ HasId(conn[PendingTable], PendingItem.id)) =>
        \/ conn' = conn /\ pc' # "failed" /\ error' = "none"
        \/ pc' = "failed" /\ error' = "OperationalError" /\ conn' = disk
    ]_vars

(* C10 witness: the package row of the update being saved was inserted     *)
(* when a row with its id but another src was in the table.                *)
C10_Witness ==
  /\ pc = "pkg_rel"
  /\ \E n \in DOMAIN conn.packages :
       /\ conn.packages[n].id = merged[k].pkglist[j].id
       /\ conn.packages[n].src # merged[k].pkglist[j].src

(* ---- strings and integers ---- *)

(* A str is the sequence of its characters.  A Python int, which has no    *)
(* bound, is the sequence of its decimal digits without leading zeros.     *)
Digits == << "0", "1", "2", "3", "4", "5", "6", "7", "8", "9" >>
IsDigit(c) == \E n \in DOMAIN Digits : Digits[n] = c
DigitVal(c) == (CHOOSE n \in DOMAIN Digits : Digits[n] = c) - 1

RECURSIVE StripZeros(_)
StripZeros(s) ==
  IF Len(s) > 1 /\ Head(s) = "0" THEN StripZeros(Tail(s)) ELSE s

(* int(s) for a str s: ValueError unless s is a non-empty string of digits *)
int(s) ==
  IF s # << >> /\ \A n \in DOMAIN s : IsDigit(s[n])
  THEN [raised |-> "none", value |-> StripZeros(s)]
  ELSE [raised |-> "ValueError", value |-> << >>]

(* a < b for two ints *)
IntLess(a, b) ==
  \/ Len(a) < Len(b)
  \/ /\ Len(a) = Len(b)
     /\ \E n \in DOMAIN a :
          /\ DigitVal(a[n]) < DigitVal(b[n])
          /\ \A m \in 1..(n - 1) : a[m] = b[m]

RECURSIVE split(_, _)
(* s.split(sep) for a one-character separator *)
split(s, sep) ==
  IF \E n \in DOMAIN s : s[n] = sep
  THEN LET n == CHOOSE a \in DOMAIN s :
                  s[a] = sep /\ \A b \in 1..(a - 1) : s[b] # sep
       IN  << SubSeq(s, 1, n - 1) >> \o split(SubSeq(s, n + 1, Len(s)), sep)
  ELSE << s >>

(* ---- the identifier of an update ---- *)

RHSA == << "R", "H", "S", "A" >>
RHBA == << "R", "H", "B", "A" >>
RHEA == << "R", "H", "E", "A" >>
CESA == << "C", "E", "S", "A" >>

(* _UTYPE_INT_MAP = dict(RHSA=0, RHBA=1, RHEA=2); typemap.get(utype,       *)
(* len(typemap)), as the str that format() makes of it                     *)
_UTYPE_INT_MAP(utype) ==
  CASE utype = RHSA -> << "0" >>
    [] utype = RHBA -> << "1" >>
    [] utype = RHEA -> << "2" >>
    [] OTHER -> << "3" >>

(* mutants of _int_from_update: the type is left out of the id; a code     *)
(* that does not split in two is taken as a whole.                         *)
_int_from_update_NoType(adv) ==
  LET parts == split(adv, "-")
  IN  IF Len(parts) # 2 THEN [raised |-> "ValueError", value |-> << >>]
      ELSE LET ys == split(parts[2], ":")
           IN  IF Len(ys) # 2 THEN [raised |-> "ValueError", value |-> << >>]
               ELSE int(<< "1", "0", "0", "0" >> \o ys[1] \o ys[2] \o << "0" >>)

_int_from_update_Lenient(adv) ==
  LET parts == split(adv, "-")
      serial == parts[Len(parts)]
      ys == split(serial, ":")
  IN  int(<< "1", "0" >> \o _UTYPE_INT_MAP(parts[1]) \o << "0" >>
          \o ys[1] \o ys[Len(ys)] \o << "0" >>)

(* _int_from_update(adv): both unpackings need exactly two parts, and      *)
(* int() needs digits.                                                     *)
_int_from_update(adv) ==
  LET parts == split(adv, "-")
  IN  IF Len(parts) # 2 THEN [raised |-> "ValueError", value |-> << >>]
      ELSE LET utype == parts[1]
               ys == split(parts[2], ":")
           IN  IF Len(ys) # 2 THEN [raised |-> "ValueError", value |-> << >>]
               ELSE int(<< "1", "0" >> \o _UTYPE_INT_MAP(utype) \o << "0" >>
                        \o ys[1] \o ys[2] \o << "0" >>)

(* ---- the corpus of update ids ---- *)

MaxSeqLen == 2

Prefixes == { RHSA, RHBA, RHEA, CESA, << "C", "E", "B", "A" >> }
Years == { << "2", "0", "1", "5" >>, << "2", "0", "1", "6" >> }
Seqs ==
  UNION { [1..n -> { "0", "1", "9" }] : n \in 1..MaxSeqLen }
  \cup { << "2", "4", "2", "3" >>, << "2", "8", "7", "2" >>,
         << "1", "2", "3", "4" >> }

(* PREFIX-year:sequence *)
Code(prefix, year, seq) == prefix \o << "-" >> \o year \o << ":" >> \o seq
ValidCodes == { Code(p, y, q) : p \in Prefixes, y \in Years, q \in Seqs }

(* Strings of the same parts with a separator missing or another one in    *)
(* its place, or with a character that is no digit.                        *)
Separators == { << "-" >>, << ":" >>, << >> }
AllCodes ==
  { p \o s1 \o y \o s2 \o q :
      p \in Prefixes, s1 \in Separators,
      y \in Years \cup { << "2", "0", "x", "6" >> },
      s2 \in Separators, q \in Seqs \cup { << "x" >>, << >> } }

(* Everything but arg, ret and pc is left as it is before any run *)
Idle ==
  /\ repos = << >>
  /\ feed = [r \in RepoNames |-> [i \in UpdIds |-> Absent]]
  /\ short = [r \in RepoNames |-> NoShort]
  /\ source = Found
  /\ ups = EmptyDict
  /\ ri = 1
  /\ merged = << >>
  /\ k = 1
  /\ j = 1
  /\ conn = EmptyDB
  /\ disk = EmptyDB
  /\ run = 1
  /\ error = "none"
  /\ first = [ok |-> FALSE, db |-> EmptyDB]
  /\ ret = << >>
  /\ pc = "call"

idle == << inputs, store, ups, ri, merged, k, j >>

(* _int_from_update applied to one string *)
InitId ==
  /\ arg \in AllCodes
  /\ Idle

CallIntFromUpdate ==
  /\ pc = "call"
  /\ ret' = _int_from_update(arg)
  /\ pc' = "returned"
  /\ UNCHANGED << idle, arg >>

SpecId == InitId /\ [][CallIntFromUpdate]_vars

(* _int_from_update applied to two codes *)
InitIdPair ==
  /\ arg \in ValidCodes \X ValidCodes
  /\ Idle

CallIntFromUpdateTwice ==
  /\ pc = "call"
  /\ ret' = << _int_from_update(arg[1]), _int_from_update(arg[2]) >>
  /\ pc' = "returned"
  /\ UNCHANGED << idle, arg >>

SpecIdPair == InitIdPair /\ [][CallIntFromUpdateTwice]_vars

(* ---- properties of the identifier ---- *)

Count(str, c) == Cardinality({ n \in DOMAIN str : str[n] = c })
IndexOf(str, c) == CHOOSE n \in DOMAIN str : str[n] = c
AllDigits(str) == \A n \in DOMAIN str : IsDigit(str[n])

(* The parts of a code PREFIX-year:sequence, by the places of '-' and ':' *)
PrefixOf(code) == SubSeq(code, 1, IndexOf(code, "-") - 1)
YearOf(code) == SubSeq(code, IndexOf(code, "-") + 1, IndexOf(code, ":") - 1)
SeqOf(code) == SubSeq(code, IndexOf(code, ":") + 1, Len(code))

KnownPrefix(code) == PrefixOf(code) \in { RHSA, RHBA, RHEA }

(* The category code of a prefix: 0, 1, 2, and 3 for any other prefix *)
CategoryOf(code) ==
  IF PrefixOf(code) = RHSA THEN "0"
  ELSE IF PrefixOf(code) = RHBA THEN "1"
  ELSE IF PrefixOf(code) = RHEA THEN "2" ELSE "3"

(* C12: the identifier is deterministic and injective on the valid codes   *)
(* with prefix RHSA, RHBA or RHEA: the same code gives the same integer,   *)
(* two distinct codes give distinct integers, whatever the lengths of      *)
(* their sequence numbers.                                                 *)
C12_IdInjective ==
  (pc = "returned" /\ KnownPrefix(arg[1]) /\ KnownPrefix(arg[2])) =>
    /\ ret[1].raised = "none"
    /\ ret[2].raised = "none"
    /\ arg[1] = arg[2] => ret[1].value = ret[2].value
    /\ arg[1] # arg[2] => ret[1].value # ret[2].value

(* C12 witness: two codes of the same prefix and year whose sequence       *)
(* numbers have different lengths, one a prefix of the other.              *)
C12_Witness ==
  /\ pc = "returned"
  /\ KnownPrefix(arg[1])
  /\ PrefixOf(arg[1]) = PrefixOf(arg[2])
  /\ YearOf(arg[1]) = YearOf(arg[2])
  /\ SeqOf(arg[2]) = SeqOf(arg[1]) \o << "0" >>
  /\ ret[1].value # ret[2].value

(* (year, sequence) of code a is earlier than that of code b, as numbers *)
Earlier(a, b) ==
  \/ IntLess(int(YearOf(a)).value, int(YearOf(b)).value)
  \/ /\ int(YearOf(a)).value = int(YearOf(b)).value
     /\ IntLess(int(SeqOf(a)).value, int(SeqOf(b)).value)

(* C13 (as claimed): the order of the ids is that of category, then year,  *)
(* then sequence number, also for sequence numbers of different lengths.   *)
C13_IdOrder ==
  (pc = "returned" /\ KnownPrefix(arg[1]) /\ KnownPrefix(arg[2])) =>
    /\ (CategoryOf(arg[1]) = CategoryOf(arg[2]) /\ Earlier(arg[1], arg[2]))
         => IntLess(ret[1].value, ret[2].value)
    /\ DigitVal(CategoryOf(arg[1])) < DigitVal(CategoryOf(arg[2]))
         => IntLess(ret[1].value, ret[2].value)

(* The digits "10", category, "0", year, sequence, "0" *)
IdDigits(code) ==
  << "1", "0", CategoryOf(code), "0" >> \o YearOf(code) \o SeqOf(code)
    \o << "0" >>

(* The code has letters, digits, '-' and ':' only *)
NoStray(code) ==
  \A n \in DOMAIN code :
    \/ IsDigit(code[n])
    \/ code[n] \in { "-", ":", "R", "H", "S", "A", "B", "E", "C" }

WellFormed(code) ==
  /\ Count(code, "-") = 1
  /\ Count(code, ":") = 1
  /\ IndexOf(code, "-") < IndexOf(code, ":")
  /\ AllDigits(YearOf(code))
  /\ AllDigits(SeqOf(code))

Letters == << "a", "b", "c", "d", "e", "f", "g", "h", "i", "j", "k", "l", "m",
              "n", "o", "p", "q", "r", "s", "t", "u", "v", "w", "x", "y", "z" >>

(* ord(char) of a digit or a lower-case letter *)
ord(char) ==
  IF IsDigit(char) THEN 48 + DigitVal(char)
  ELSE 96 + (CHOOSE n \in DOMAIN Letters : Letters[n] = char)

RECURSIVE str(_)
(* str(n) of a natural number: its decimal digits *)
str(n) ==
  IF n < 10 THEN << Digits[n + 1] >>
  ELSE str(n \div 10) \o << Digits[(n % 10) + 1] >>

_C_DIGITS == Digits
_H2I_BASE == ord("a") - Len(_C_DIGITS)

(* mutant of _c2i: a digit is not padded with 0 *)
_c2i_NoPad(char) ==
  IF \E n \in DOMAIN _C_DIGITS : _C_DIGITS[n] = char
  THEN << char >>
  ELSE str(ord(char) - _H2I_BASE)

(* _c2i(char): "0{}".format(char) for a digit, else str(ord(char) - 87) *)
_c2i(char) ==
  IF \E n \in DOMAIN _C_DIGITS : _C_DIGITS[n] = char
  THEN << "0", char >>
  ELSE str(ord(char) - _H2I_BASE)

RECURSIVE JoinC2i(_)
(* ''.join(_c2i(c) for c in hstr) *)
JoinC2i(hstr) ==
  IF hstr = << >> THEN << >> ELSE _c2i(Head(hstr)) \o JoinC2i(Tail(hstr))

(* _hex2int(hstr) == int(''.join(_c2i(c) for c in hstr)) *)
_hex2int(hstr) == int(JoinC2i(hstr))

(* The strings _hex2int is applied to: HexLen characters (the code takes   *)
(* digest[:8]) out of hex digits and of 'z', the letter of _c2i's doctest. *)
HexLen == 2
HexStrs == [1..HexLen -> { "0", "1", "9", "a", "b", "f", "z" }]

InitHex ==
  /\ arg \in HexStrs \X HexStrs
  /\ Idle

CallHex2IntTwice ==
  /\ pc = "call"
  /\ ret' = << _hex2int(arg[1]), _hex2int(arg[2]) >>
  /\ pc' = "returned"
  /\ UNCHANGED << idle, arg >>

SpecHex == InitHex /\ [][CallHex2IntTwice]_vars

(* hashlib.sha256(vals_s).hexdigest()[:8]: the first eight characters of  *)
(* the SHA-256 digest of the strings that occur in the model.              *)
hexdigest8(vals_s) ==
  CASE vals_s = "kernel 0 3.10.0 123.el7 x86_64" -> << "0", "7", "2", "8", "b", "f", "4", "d" >>
    [] vals_s = "kernel 0 3.10.0 123.el7 x86_64 s1" -> << "9", "5", "2", "8", "7", "d", "f", "4" >>
    [] vals_s = "kernel 0 3.10.0 123.el7 x86_64 s2" -> << "e", "8", "1", "2", "d", "2", "6", "8" >>
    [] vals_s = "kernel 0 3.10.0 124.el7 x86_64" -> << "3", "4", "4", "6", "0", "4", "e", "8" >>
    [] vals_s = "kernel 0 3.10.0 124.el7 x86_64 s1" -> << "5", "a", "b", "4", "b", "d", "f", "1" >>
    [] vals_s = "kernel 0 3.10.0 124.el7 x86_64 s2" -> << "f", "d", "e", "b", "1", "c", "3", "9" >>

RECURSIVE Join(_)
(* ' '.join(str(v) for v in values) *)
Join(values) ==
  IF Len(values) = 1 THEN values[1]
  ELSE values[1] \o " " \o Join(Tail(values))

(* gen_id_for_values(values) *)
gen_id_for_values(values) == _hex2int(hexdigest8(Join(values))).value

(* ---- packages and repository of an update ---- *)

(* dic.get(key, None) / key in dic *)
Has(dic, key) == key \in DOMAIN dic
Get(dic, key) == IF Has(dic, key) THEN dic[key] ELSE None

Raise(exc) == [raised |-> exc, value |-> None]
Return(v) == [raised |-> "none", value |-> v]

(* mutant of _NEVRA: src is one of the values the id is made of *)
_NEVRA_WithSrc ==
  << "name", "epoch", "version", "release", "arch", "src" >>

(* _NEVRA = operator.itemgetter("name", "epoch", "version", "release",     *)
(* "arch"): the keys it gets                                               *)
_NEVRA ==
  << "name", "epoch", "version", "release", "arch" >>

(* operator.itemgetter of keys, applied to item: KeyError if the item     *)
(* lacks one of the keys                                                  *)
ItemGetter(keys, item) ==
  IF \A n \in DOMAIN keys : Has(item, keys[n])
  THEN Return([n \in DOMAIN keys |-> item[keys[n]]])
  ELSE Raise("KeyError")

(* _get_value(dic, key) for a key whose value, if any, is a str *)
_get_value(dic, key) ==
  LET candidate == Get(dic, key)
  IN  IF IsNone(candidate) THEN None ELSE candidate

(* pkg["id"] = gen_id_for_values(_NEVRA(pkg)) for each of pkgs *)
PkgsWithIds(pkgs) ==
  IF \E n \in DOMAIN pkgs : ItemGetter(_NEVRA, pkgs[n]).raised # "none"
  THEN Raise("KeyError")
  ELSE Return([n \in DOMAIN pkgs |->
                 ("id" :> gen_id_for_values(ItemGetter(_NEVRA, pkgs[n]).value))
                   @@ pkgs[n]])

(* mutant of PkgEntries: every child is taken for a package entry *)
PkgEntries_NoFilter(pkc) ==
  IF Has(pkc, "@children")
  THEN pkc["@children"]
  ELSE IF Has(pkc, "package") THEN << [package |-> pkc.package] >> ELSE << >>

(* The dicts whose "package" makes pkgs: the children that have one, or    *)
(* the collection itself if it has one.                                    *)
PkgEntries(pkc) ==
  IF Has(pkc, "@children")
  THEN SelectSeq(pkc["@children"], LAMBDA p : Has(p, "package"))
  ELSE IF Has(pkc, "package") THEN << [package |-> pkc.package] >> ELSE << >>

(* mutant of Rid: the short name of the collection is not looked at *)
Rid_CallerOnly(pkc, repo) == repo

(* rid = _get_value(pkc, "short") or repo *)
Rid(pkc, repo) ==
  LET short_ == _get_value(pkc, "short")
  IN  IF IsNone(short_) \/ short_ = "" THEN repo ELSE short_

(* The try block of _repo_and_pkgs_from_update *)
RepoAndPkgs(update, repo) ==
  IF ~ Has(update, "pkglist") THEN Raise("KeyError")
  ELSE IF ~ Has(update.pkglist, "collection") THEN Raise("KeyError")
  ELSE
    LET pkc == update.pkglist.collection
        rid == Rid(pkc, repo)
        children == pkc["@children"]
        viaChildren == Has(pkc, "@children")
        entries == PkgEntries(pkc)
        withIds == PkgsWithIds([n \in DOMAIN entries |-> entries[n].package])
    IN  IF viaChildren /\ children = << >> THEN Raise("IndexError")
        ELSE IF viaChildren /\ ~ Has(children[1], "name") THEN Raise("KeyError")
        ELSE IF ~ viaChildren /\ ~ Has(pkc, "name") THEN Raise("KeyError")
        ELSE IF \E n \in DOMAIN entries : ~ Has(entries[n], "package")
        THEN Raise("KeyError")
        ELSE IF withIds.raised # "none" THEN withIds
        ELSE Return(<< rid,
                       IF viaChildren THEN children[1].name ELSE pkc.name,
                       withIds.value >>)

(* _repo_and_pkgs_from_update(update, repo): KeyError and AttributeError   *)
(* become ValueError("Corrupt update info: {}".format(update.get("id",     *)
(* "Unknown!"))); msg is the value the message is formatted with.           *)
_repo_and_pkgs_from_update(update, repo) ==
  LET r == RepoAndPkgs(update, repo)
  IN  IF r.raised \in {"KeyError", "AttributeError"}
      THEN [raised |-> "ValueError", value |-> None,
            msg |-> IF Has(update, "id") THEN update.id
                    ELSE << "U", "n", "k", "n", "o", "w", "n", "!" >>]
      ELSE r

(* The package lists of the updates: up to MaxPkgs packages out of two     *)
(* builds of kernel, one of them with two values of src, and a package     *)
(* without arch.                                                           *)
MaxPkgs == 2
RawPkg(release, src) ==
  [name |-> "kernel", epoch |-> "0", version |-> "3.10.0",
   release |-> release, arch |-> "x86_64", src |-> src]
NoArch ==
  [name |-> "kernel", epoch |-> "0", version |-> "3.10.0",
   release |-> "123.el7", src |-> "s1"]
RawPkgs == { RawPkg("123.el7", "s1"), RawPkg("123.el7", "s2"),
             RawPkg("124.el7", "s1"), NoArch }
PkgLists == UNION { [1..n -> RawPkgs] : n \in 0..MaxPkgs }

(* An attribute or child element that may be missing *)
Attr(key, v) == IF v = Absent THEN EmptyDict ELSE (key :> v)

(* <collection short=...><name>...</name><package>...</package>           *)
(* </collection> as the XML loader gives it: a dict if it has at most one  *)
(* package, else the attributes and a "@children" list of one-key dicts,   *)
(* which is never empty.                                                   *)
DirectColl(short_, name, pkgs) ==
  Attr("short", short_) @@ Attr("name", name)
    @@ (IF pkgs = << >> THEN EmptyDict ELSE ("package" :> pkgs[1]))

ChildrenColl(short_, name, pkgs) ==
  Attr("short", short_)
    @@ ("@children" :>
          ((IF name = Absent THEN << >> ELSE << [name |-> name] >>)
             \o [n \in DOMAIN pkgs |-> [package |-> pkgs[n]]]))

Collections ==
  { DirectColl(s, nm, p) : s \in {Absent, "x"}, nm \in {Absent, "Alpha repo"},
                           p \in { q \in PkgLists : Len(q) <= 1 } }
  \cup
  { c \in { ChildrenColl(s, nm, p) : s \in {Absent, "x"},
                                     nm \in {Absent, "Alpha repo"},
                                     p \in PkgLists } :
      c["@children"] # << >> }

PkgUpdate(code, coll) == [id |-> code, pkglist |-> [collection |-> coll]]

(* Two updates, of the first repository and of any repository *)
InitPkgs ==
  /\ arg \in [upd1 : { PkgUpdate(Code(RHSA, << "2", "0", "1", "6" >>, << "1" >>), c) : c \in Collections },
              upd2 : { PkgUpdate(Code(RHBA, << "2", "0", "1", "6" >>, << "9" >>), c) : c \in Collections },
              repo2 : RepoNames]
  /\ Idle

CallRepoAndPkgsTwice ==
  /\ pc = "call"
  /\ ret' = << _repo_and_pkgs_from_update(arg.upd1, "alpha"),
               _repo_and_pkgs_from_update(arg.upd2, arg.repo2) >>
  /\ pc' = "returned"
  /\ UNCHANGED << idle, arg >>

SpecPkgs == InitPkgs /\ [][CallRepoAndPkgsTwice]_vars

RECURSIVE InsertPkgs(_, _)
(* The rows _insert_list_values_with_rels adds to the packages table for   *)
(* the packages of an update                                               *)
InsertPkgs(db, pkgs) ==
  IF pkgs = << >> THEN db
  ELSE InsertPkgs(_insert_values(db, "packages", _PKG_KEYS,
                                 ValuesOf(Head(pkgs), _PKG_KEYS)).db,
                  Tail(pkgs))

(* ---- properties of the package identifier ---- *)

(* The pair the claim gives for a character: its value as a digit, 10..15  *)
(* for 'a'..'f', 35 for 'z', written with two digits.                      *)
PairOf(char) ==
  LET v == CASE IsDigit(char) -> DigitVal(char)
             [] char = "a" -> 10 [] char = "b" -> 11 [] char = "c" -> 12
             [] char = "d" -> 13 [] char = "e" -> 14 [] char = "f" -> 15
             [] char = "z" -> 35
  IN  << Digits[(v \div 10) + 1], Digits[(v % 10) + 1] >>

(* C18: _c2i maps every character to its two-digit pair, and two different *)
(* hex strings of the same length never give the same integer.            *)
C18_Hex2IntInjective ==
  pc = "returned" =>
    /\ \A h \in 1..2 : \A n \in DOMAIN arg[h] : _c2i(arg[h][n]) = PairOf(arg[h][n])
    /\ \A h \in 1..2 : ret[h].raised = "none"
    /\ (arg[1] # arg[2] => ret[1].value # ret[2].value)

(* Two different strings that begin with 0 and hold a letter and 'z' *)
C18_Witness ==
  /\ pc = "returned"
  /\ arg[1] # arg[2]
  /\ arg[1][1] = "0" /\ arg[2][1] = "0"
  /\ arg[1][HexLen] = "z" /\ arg[2][HexLen] = "f"
  /\ ret[1].value # ret[2].value

(* ---- the references of an update ---- *)

(* A value whose type the code asks for with isinstance: a dict, a list,   *)
(* or a value that is neither (None, a str).  v holds the dict, or the     *)
(* items of the list.                                                      *)
Dict(d) == [kind |-> "dict", v |-> << d >>]
List(l) == [kind |-> "list", v |-> l]
DictOf(x) == x.v[1]

(* _url_from_update(update) *)
_url_from_update(update) ==
  IF ~ Has(update, "references") THEN Raise("KeyError")
  ELSE LET refs == update.references
       IN  IF refs.kind = "dict"
           THEN IF Has(DictOf(refs), "reference")
                THEN Return(Get(DictOf(refs).reference, "href"))
                ELSE Raise("KeyError")
           ELSE IF refs.kind = "list"
           THEN IF refs.v = << >> THEN Raise("IndexError")
                ELSE IF Has(refs.v[1], "reference")
                THEN Return(Get(refs.v[1].reference, " href"))
                ELSE Raise("KeyError")
           ELSE Raise("ValueError")

(* <reference href=... type=... id=... title=.../>: the attributes of the  *)
(* element; type, id and href may be missing.                              *)
RawRef(type, id, href, title) ==
  [title |-> title] @@ Attr("type", type) @@ Attr("id", id) @@ Attr("href", href)

ErrataUrl == "http://access.redhat.com/errata/RHSA-2016:2872.html"
RawRefs ==
  { RawRef("self", "RHSA-2016:2872", "https://rhn.redhat.com/errata/RHSA-2016-2872.html", "t0"),
    RawRef("cve", "CVE-1", "https://cve/1", "t1"),
    RawRef("cve", "CVE-1", Absent, "t2"),
    RawRef("bugzilla", "1", "https://bugzilla/1", "t3"),
    RawRef("other", "ref_0", ErrataUrl, "t4"),
    RawRef("other", Absent, ErrataUrl, "t5"),
    RawRef("other", "ref_1", "https://other", "t6"),
    RawRef("other", "classification", "https://class", "t7"),
    RawRef(Absent, "CVE-2", "https://cve/2", "t8") }

(* The references node as the XML loader gives it: a dict for one          *)
(* reference, a list of one-key dicts for more, None or a str for none.    *)
MaxRefs == 2
RefNodes ==
  { Dict([reference |-> r]) : r \in RawRefs }
  \cup { List([n \in DOMAIN f |-> [reference |-> f[n]]]) :
           f \in UNION { [1..m -> RawRefs] : m \in 0..MaxRefs } }
  \cup { [kind |-> "other", v |-> << >>] }

(* An update with any references node, or with none *)
InitUrl ==
  /\ arg \in { [id |-> Code(RHSA, << "2", "0", "1", "6" >>, << "1" >>),
                references |-> node] : node \in RefNodes }
             \cup { [id |-> Code(RHSA, << "2", "0", "1", "6" >>, << "1" >>)] }
  /\ Idle

CallUrlFromUpdate ==
  /\ pc = "call"
  /\ ret' = _url_from_update(arg)
  /\ pc' = "returned"
  /\ UNCHANGED << idle, arg >>

SpecUrl == InitUrl /\ [][CallUrlFromUpdate]_vars

(* ---- the normalizer (process_uixmlgz_itr) ---- *)

(* _UTYPE_TYPE_MAP = {RHSA: "security", RHBA: "bug", RHEA: "enhancement"}, *)
(* read with the names of the update types as its keys (the source writes  *)
(* the keys as the bare names RHSA, RHBA, RHEA).                           *)
_UTYPE_TYPE_MAP ==
  (RHSA :> "security") @@ (RHBA :> "bug") @@ (RHEA :> "enhancement")

(* _type_from_update(adv): adv.split('-')[0] needs a str *)
_type_from_update(adv) ==
  IF adv.type # "str" THEN Raise("AttributeError")
  ELSE LET utype == split(adv.v, "-")[1]
       IN  IF Has(_UTYPE_TYPE_MAP, utype) THEN Return(_UTYPE_TYPE_MAP[utype])
           ELSE Raise("KeyError")

RECURSIVE Concat(_)
(* The str of a sequence of characters *)
Concat(chars) == IF chars = << >> THEN "" ELSE Head(chars) \o Concat(Tail(chars))

(* mutant of EurlMatch: no href matches *)
EurlMatch_Never(href) == << >>

(* _EURL_RE.match(href).groups()[0] for the hrefs of the model: the        *)
(* advisory of an errata URL, None if the href is none.                    *)
EurlMatch(href) ==
  IF href = ErrataUrl
  THEN Code(RHSA, << "2", "0", "1", "6" >>, << "2", "8", "7", "2" >>)
  ELSE << >>

(* mutant of ProcessRef: a reference to the update itself is kept *)
ProcessRef_KeepSelf(ref) ==
  IF ~ Has(ref, "id") \/ ~ Has(ref, "type") THEN Return(<< >>)
  ELSE Return(<< ref >>)

(* One round of the loop of _process_refs_itr: what it yields for ref *)
ProcessRef(ref) ==
  IF ~ Has(ref, "id") \/ ~ Has(ref, "type") THEN Return(<< >>)
  ELSE IF ref.type = "self" \/ ref.id = "classification" THEN Return(<< >>)
  ELSE IF ref.type # "other" THEN Return(<< ref >>)
  ELSE IF ~ Has(ref, "href") THEN Raise("KeyError")
  ELSE LET adv == EurlMatch(ref.href)
           id == _int_from_update(adv)
       IN  IF adv = << >> THEN Return(<< ref >>)
           ELSE IF id.raised # "none" THEN Raise(id.raised)
           ELSE Return(<< [ref EXCEPT !.type = "errata",
                                      !.title = Concat(adv),
                                      !.id = Concat(id.value)] >>)

RECURSIVE ProcessRefs(_)
ProcessRefs(entries) ==
  IF entries = << >> THEN Return(<< >>)
  ELSE IF ~ Has(Head(entries), "reference") THEN Raise("KeyError")
  ELSE LET r == ProcessRef(Head(entries).reference)
           rest == ProcessRefs(Tail(entries))
       IN  IF r.raised # "none" THEN r
           ELSE IF rest.raised # "none" THEN rest
           ELSE Return(r.value \o rest.value)

(* mutant of _process_refs_itr: a single reference is processed as well *)
_process_refs_itr_AnyShape(refs) ==
  IF refs.v = << >> THEN Return(<< >>)
  ELSE ProcessRefs(refs.v)

(* list(_process_refs_itr(refs)) *)
_process_refs_itr(refs) ==
  IF refs.kind # "list" \/ refs.v = << >> THEN Return(<< >>)
  ELSE ProcessRefs(refs.v)

(* mutant of Cves: every reference is taken for a CVE *)
Cves_All(references) == references

(* upd["cves"] = [r for r in upd["references"] if r["type"] == "cve"] *)
Cves(references) == SelectSeq(references, LAMBDA r : r.type = "cve")

(* upd["bzs"] = [r for r in upd["references"] if r["type"] == "bugzilla"] *)
Bzs(references) == SelectSeq(references, LAMBDA r : r.type = "bugzilla")

(* The references, cves and bzs process_uixmlgz_itr gives an update whose  *)
(* references node is refs                                                 *)
RefsOfUpdate(refs) ==
  LET r == _process_refs_itr(refs)
  IN  IF r.raised # "none" THEN r
      ELSE Return([references |-> r.value, cves |-> Cves(r.value),
                   bzs |-> Bzs(r.value)])

(* Any references node *)
InitRefs ==
  /\ arg \in RefNodes
  /\ Idle

CallRefsOfUpdate ==
  /\ pc = "call"
  /\ ret' = RefsOfUpdate(arg)
  /\ pc' = "returned"
  /\ UNCHANGED << idle, arg >>

SpecRefs == InitRefs /\ [][CallRefsOfUpdate]_vars

(* upd["advisory"] = upd["id"]; upd["id"] = uid: the update as lines       *)
(* 282-284 of process_uixmlgz_itr leave it                                 *)
SwapId(upd, uid) ==
  [f \in DOMAIN upd \cup {"advisory"} |->
     IF f = "advisory" THEN [type |-> "str", v |-> upd.id]
     ELSE IF f = "id" THEN [type |-> "int", v |-> uid]
     ELSE upd[f]]

(* The statements of the loop of process_uixmlgz_itr after the type of the *)
(* update (lines 287-306), for an update whose id is swapped already: the  *)
(* update they yield but for its type, or the exception they raise.        *)
process_rest(upd, repo) ==
  LET Yield(rp, url, refs) ==
        IF rp.raised # "none" THEN rp
        ELSE IF url.raised # "none" THEN url
        ELSE IF refs.raised # "none" THEN refs
        ELSE IF \E key \in {"issued", "updated"} :
                  ~ Has(upd, key) \/ ~ Has(upd[key], "date")
        THEN Raise("KeyError")
        ELSE Return(
          [id |-> upd.id.v, advisory |-> upd.advisory.v,
           title |-> upd.title,
           severity |-> Get(upd, "severity"),
           pkglist |-> rp.value[3],
           pkgnames |-> [n \in DOMAIN rp.value[3] |-> rp.value[3][n].name],
           url |-> url.value,
           repos |-> << [uid |-> upd.id.v, repo_id |-> rp.value[1],
                         repo_name |-> rp.value[2]] >>,
           references |-> refs.value.references,
           cves |-> refs.value.cves,
           bzs |-> refs.value.bzs,
           issued |-> upd.issued.date, updated |-> upd.updated.date])
  IN  Yield(_repo_and_pkgs_from_update(upd, repo),
            _url_from_update(upd),
            RefsOfUpdate(IF Has(upd, "references") THEN upd.references
                         ELSE List(<< >>)))

(* The body of the loop of process_uixmlgz_itr for one update of repo:     *)
(* the update it yields, or the exception that ends the generator.         *)
process_update(upd, repo) ==
  LET Typed(type, rest) ==
        IF type.raised # "none" THEN Raise(type.raised)
        ELSE IF rest.raised # "none" THEN rest
        ELSE Return([type |-> type.value] @@ rest.value)
      \* upd["type"] = _type_from_update(upd["id"]), then the rest
      Swapped(swapped) ==
        Typed(_type_from_update(swapped.id), process_rest(swapped, repo))
      Body(uid) ==
        IF uid.raised # "none" THEN Raise(uid.raised)
        ELSE Swapped(SwapId(upd, uid.value))
  IN  Body(_int_from_update(upd.id))

RECURSIVE RelStmts(_, _, _, _, _)
(* The statements of _insert_list_values_with_rels for the items of an     *)
(* update: each item's row, then the row that joins it to the update.      *)
RelStmts(uid, items, tbl, keys, rel) ==
  IF items = << >> THEN << >>
  ELSE << [tbl |-> tbl, keys |-> keys, values |-> ValuesOf(Head(items), keys)],
          [tbl |-> rel, keys |-> << "uid", IF rel = "update_packages" THEN "pid" ELSE "rid" >>,
           values |-> << uid, Head(items).id >>] >>
       \o RelStmts(uid, Tail(items), tbl, keys, rel)

Commit == [tbl |-> "commit", keys |-> << >>, values |-> << >>]

(* The statements of one round of the loop of save_uidata_to_sqlite *)
SaveStmts(upd) ==
  << [tbl |-> "updates", keys |-> _UPD_KEYS, values |-> ValuesOf(upd, _UPD_KEYS)] >>
  \o RelStmts(upd.id, upd.pkglist, "packages", _PKG_KEYS, "update_packages")
  \o << Commit >>
  \o RelStmts(upd.id, upd.references, "refs", _REF_KEYS, "update_refs")
  \o << Commit >>
  \o [n \in DOMAIN upd.repos |->
        [tbl |-> "update_repos", keys |-> _REPO_KEYS,
         values |-> << upd.id, upd.repos[n].repo_id, upd.repos[n].repo_name >>]]

RECURSIVE RunStmts(_, _)
(* The statements in turn on the database st.conn of the connection: a     *)
(* commit makes it the database on disk, an exception rolls it back and    *)
(* ends the run.                                                           *)
RunStmts(st, stmts) ==
  IF stmts = << >> THEN st
  ELSE LET stmt == Head(stmts)
           res == _insert_values(st.conn, stmt.tbl, stmt.keys, stmt.values)
       IN  IF stmt.tbl = "commit"
           THEN RunStmts([st EXCEPT !.disk = st.conn], Tail(stmts))
           ELSE IF res.raised # "none"
           THEN [conn |-> st.disk, disk |-> st.disk, raised |-> res.raised]
           ELSE RunStmts([st EXCEPT !.conn = res.db], Tail(stmts))

(* save_uidata_to_sqlite([upd], outdir) on a new database *)
SaveOne(upd) ==
  RunStmts([conn |-> EmptyDB, disk |-> EmptyDB, raised |-> "none"],
           SaveStmts(upd) \o << Commit >>)

(* The raw updates: an advisory code, well formed or with a separator      *)
(* missing or out of place, a collection with one package, and any         *)
(* references node.                                                        *)
Y2016 == << "2", "0", "1", "6" >>
N2872 == << "2", "8", "7", "2" >>
N2423 == << "2", "4", "2", "3" >>
RawCodes ==
  { Code(RHSA, Y2016, N2872), Code(RHBA, Y2016, N2423),
    Code(RHEA, Y2016, N2423), Code(CESA, Y2016, N2872),
    RHSA \o Y2016 \o << ":" >> \o N2872,
    RHSA \o << "-" >> \o Y2016 \o N2872,
    RHSA \o Y2016 \o N2872,
    RHSA \o << ":" >> \o Y2016 \o << "-" >> \o N2872 }

RawColls ==
  { DirectColl(sh, nm, << p >>) : sh \in {Absent, "x", ""},
                                  nm \in {Absent, "Alpha repo"},
                                  p \in { RawPkg("123.el7", "s1"), NoArch } }
  \cup
  { ChildrenColl(sh, nm, << p >>) : sh \in {Absent, "x", ""},
                                    nm \in {Absent, "Alpha repo"},
                                    p \in { RawPkg("123.el7", "s1"), NoArch } }

RawUpdate(code, coll, node) ==
  [id |-> code, title |-> "t1", severity |-> "Important",
   pkglist |-> [collection |-> coll], references |-> node,
   issued |-> [date |-> "2016-12-06"], updated |-> [date |-> "2016-12-07"]]

InitNorm ==
  /\ arg \in { RawUpdate(code, coll, node) :
                 code \in RawCodes, coll \in RawColls, node \in RefNodes }
  /\ Idle

(* The updates at line 287 of process_uixmlgz_itr: raw updates with a well *)
(* formed code, with or without package list and references node, their   *)
(* id swapped.                                                             *)
RestUpdates ==
  { SwapId([id |-> code, title |-> "t1", severity |-> "Important",
            issued |-> [date |-> "2016-12-06"],
            updated |-> [date |-> "2016-12-07"]]
             @@ (IF hp THEN "pkglist" :> [collection |-> coll] ELSE EmptyDict)
             @@ (IF hr THEN "references" :> node ELSE EmptyDict),
           _int_from_update(code).value) :
      code \in { Code(RHSA, Y2016, N2872), Code(CESA, Y2016, N2872) },
      coll \in RawColls, node \in RefNodes, hp \in BOOLEAN, hr \in BOOLEAN }

InitRest ==
  /\ arg \in [upd : RestUpdates, repo : RepoNames]
  /\ Idle

CallProcessRest ==
  /\ pc = "call"
  /\ ret' = process_rest(arg.upd, arg.repo)
  /\ pc' = "returned"
  /\ UNCHANGED << idle, arg >>

SpecRest == InitRest /\ [][CallProcessRest]_vars

(* convert_uixmlgzs(["alpha"], outdir) where the updateinfo of alpha holds  *)
(* the one update arg: convert_uixmlgz normalizes it (an exception of the  *)
(* normalizer ends the conversion), the merge of a single repository       *)
(* returns it, and save_uidata_to_sqlite writes it to a new database.      *)
ConvertOneRepo ==
  /\ pc = "call"
  /\ \E r \in { process_update(arg, "alpha") } :
       /\ ret' = r
       /\ IF r.raised # "none"
          THEN /\ pc' = "aborted"
               /\ error' = r.raised
               /\ UNCHANGED << merged, conn, disk >>
          ELSE \E saved \in { SaveOne(r.value) } :
                 /\ pc' = IF saved.raised = "none" THEN "saved" ELSE "failed"
                 /\ error' = saved.raised
                 /\ merged' = << r.value >>
                 /\ conn' = saved.conn
                 /\ disk' = saved.disk
  /\ UNCHANGED << inputs, ups, ri, k, j, run, first, arg >>

SpecNorm == InitNorm /\ [][ConvertOneRepo]_vars

(* ---- dates (fleure_db/dates.py) ---- *)

RECURSIVE NatOf(_)
(* The number an int (a sequence of digits) stands for *)
NatOf(digits) ==
  IF digits = << >> THEN 0
  ELSE 10 * NatOf(SubSeq(digits, 1, Len(digits) - 1))
       + DigitVal(digits[Len(digits)])

(* _to_date(date_s): (year, month, day) of "2017-03-10 00:00:00" (the part *)
(* before the blank) or of "03/10/17"                                      *)
_to_date(date_s) ==
  IF \E n \in DOMAIN date_s : date_s[n] = "-"
  THEN LET ymd == split(split(date_s, " ")[1], "-")
       IN  << NatOf(int(ymd[1]).value), NatOf(int(ymd[2]).value),
              NatOf(int(ymd[3]).value) >>
  ELSE LET mdy == split(date_s, "/")
       IN  << NatOf(int(<< "2", "0" >> \o mdy[3]).value),
              NatOf(int(mdy[1]).value), NatOf(int(mdy[2]).value) >>

(* A datetime is a number of half days; the months of the model are those  *)
(* of one year and have 31 days.                                           *)
Datetime(ymd) == 2 * ((ymd[1] * 12 + ymd[2]) * 31 + ymd[3])

(* _to_datetime(date_s) == datetime.datetime of _to_date(date_s), midnight *)
_to_datetime(date_s) == Datetime(_to_date(date_s))

(* weeks_ago(delta) == datetime.datetime.now() - timedelta(weeks=delta) *)
weeks_ago(delta, clock) == clock - 14 * delta

(* in_last_x_weeks(date_s, ago, end) when datetime.datetime.now() is clock *)
in_last_x_weeks(date_s, ago, end, clock) ==
  LET now == IF IsNone(end) THEN clock ELSE _to_datetime(end)
      the_date == _to_datetime(date_s)
      start_date == weeks_ago(ago, clock)
  IN  start_date < the_date /\ the_date <= now

(* Days of March 2017 in both formats, and the clock at midnight or noon   *)
(* of such a day or of a day of the month after.                           *)
MaxDay == 15
MaxAgo == 2
TwoDigits(n) == << Digits[(n \div 10) + 1], Digits[(n % 10) + 1] >>
IsoDate(d) == << "2", "0", "1", "7", "-", "0", "3", "-" >> \o TwoDigits(d)
UsDate(d) == << "0", "3", "/" >> \o TwoDigits(d) \o << "/", "1", "7" >>

InitDates ==
  /\ LET DateStrs == { IsoDate(d) : d \in 1..MaxDay } \cup { UsDate(d) : d \in 1..MaxDay }
         Clocks == { Datetime(<< 2017, m, d >>) + h :
                       m \in {3, 4}, d \in {1, 8, 14, 15}, h \in {0, 1} }
     IN  arg \in [date_s : DateStrs, ago : 0..MaxAgo, clock : Clocks,
                  end : { IsoDate(d) : d \in 1..MaxDay }]
                 \cup [date_s : DateStrs, ago : 0..MaxAgo, clock : Clocks]
  /\ Idle

CallInLastXWeeks ==
  /\ pc = "call"
  /\ ret' = in_last_x_weeks(arg.date_s, arg.ago,
                            IF Has(arg, "end") THEN arg.end ELSE None,
                            arg.clock)
  /\ pc' = "returned"
  /\ UNCHANGED << idle, arg >>

SpecDates == InitDates /\ [][CallInLastXWeeks]_vars

(* ---- properties of the packages of an update ---- *)

NevraOf(p) == << p.name, p.epoch, p.version, p.release, p.arch >>

BothReturned ==
  pc = "returned" /\ ret[1].raised = "none" /\ ret[2].raised = "none"

(* The packages of the two updates, in the order they are ingested *)
Ingested == ret[1].value[3] \o ret[2].value[3]

(* C17: two packages with the same (name, epoch, version, release, arch)   *)
(* get the same id, whatever update or repository they come from and       *)
(* whatever their src is, and the packages table gets one row for each     *)
(* distinct tuple.                                                         *)
C17_IdFromNevraOnly ==
  BothReturned =>
    /\ \A m, n \in DOMAIN Ingested :
         NevraOf(Ingested[m]) = NevraOf(Ingested[n])
           => Ingested[m].id = Ingested[n].id
    /\ Len(InsertPkgs(EmptyDB, Ingested).packages)
         = Cardinality({ NevraOf(Ingested[n]) : n \in DOMAIN Ingested })

(* Updates of two repositories hold the same build with another src, and   *)
(* another build                                                           *)
C17_Witness ==
  /\ BothReturned
  /\ arg.repo2 = "beta"
  /\ ret[1].value[1] # ret[2].value[1]
  /\ \E m \in DOMAIN ret[1].value[3], n \in DOMAIN ret[2].value[3] :
       /\ NevraOf(ret[1].value[3][m]) = NevraOf(ret[2].value[3][n])
       /\ ret[1].value[3][m].src # ret[2].value[3][n].src
       /\ ret[1].value[3][m].id = ret[2].value[3][n].id
  /\ Len(InsertPkgs(EmptyDB, Ingested).packages) = 2

(* The second update is the first one with its only package as the only    *)
(* package entry of a children list                                        *)
SameButChildren ==
  \E s \in {Absent, "x"}, nm \in {Absent, "Alpha repo"}, p \in RawPkgs :
    /\ arg.upd1.pkglist.collection = DirectColl(s, nm, << p >>)
    /\ arg.upd2.pkglist.collection = ChildrenColl(s, nm, << p >>)

(* C19: an update whose collection holds one package directly and the      *)
(* update that holds the same package as the only package entry of a       *)
(* children list give the same repository id, repository name and          *)
(* packages, ids included.                                                 *)
C19_SingleObjectAsList ==
  (pc = "returned" /\ SameButChildren /\ arg.repo2 = "alpha") =>
    /\ ret[1].raised = ret[2].raised
    /\ ret[1].value = ret[2].value

C19_Witness ==
  /\ pc = "returned" /\ SameButChildren /\ arg.repo2 = "alpha"
  /\ ret[1].raised = "none"
  /\ ret[2].value[1] = "x"
  /\ ret[2].value[2] = "Alpha repo"
  /\ Len(ret[2].value[3]) = 1
  /\ ret[2].value[3][1].id = << "7", "0", "2", "0", "8", "1", "1", "1", "5", "0", "4", "1", "3" >>
  /\ ret[1].value = ret[2].value

(* ---- properties of the URL of an update ---- *)

(* The href attribute of a references entry *)
HrefOf(entry) == IF Has(entry.reference, "href") THEN entry.reference.href ELSE None

(* C20: the URL is the href of the references node if the node is a single *)
(* object, the href of its first element if it is a list, and a node of    *)
(* any other shape raises ValueError.                                      *)
C20_UrlOfUpdate ==
  (pc = "returned" /\ Has(arg, "references")) =>
    LET refs == arg.references
    IN  /\ refs.kind = "dict" => ret = Return(HrefOf(DictOf(refs)))
        /\ (refs.kind = "list" /\ refs.v # << >>) => ret = Return(HrefOf(refs.v[1]))
        /\ refs.kind = "other" => ret.raised = "ValueError"

(* ---- properties of the normalizer ---- *)

Converted == pc \in {"aborted", "saved", "failed"}

(* The steps of the normalizer after the type of the update return *)
RestReturns(upd) ==
  /\ _repo_and_pkgs_from_update(upd, "alpha").raised = "none"
  /\ _url_from_update(upd).raised = "none"
  /\ _process_refs_itr(upd.references).raised = "none"

(* The update of the scenario: RHSA-2016:2872 with the package (kernel, 0, *)
(* 3.10.0, 123.el7, x86_64) and one CVE reference, alone or after the      *)
(* reference to the advisory itself.                                       *)
Cve1 == RawRef("cve", "CVE-1", "https://cve/1", "t1")
Self == RawRef("self", "RHSA-2016:2872", "https://rhn.redhat.com/errata/RHSA-2016-2872.html", "t0")
Scenario ==
  /\ arg.id = Code(RHSA, Y2016, N2872)
  /\ arg.pkglist.collection
       \in { DirectColl(sh, "Alpha repo", << RawPkg("123.el7", "s1") >>) :
               sh \in {Absent, "x"} }
  /\ arg.references \in { List(<< [reference |-> Cve1] >>),
                          List(<< [reference |-> Self], [reference |-> Cve1] >>) }

(* C11: after the conversion of one repository with the update of the      *)
(* scenario the store holds one update row, one package row, one reference *)
(* row (the CVE) and one row in each join table.                           *)
C11_EndToEnd ==
  (Converted /\ Scenario) =>
    /\ error = "none"
    /\ \A t \in TableNames : Len(disk[t]) = 1
    /\ disk.refs[1].id = "CVE-1"

(* C15: a code without '-' or without ':' makes the identifier derivation  *)
(* raise ValueError, no id is derived, and the error ends the normalizer   *)
(* and reaches its caller.                                                 *)
C15_MalformedIdRaises ==
  (Converted /\ (Count(arg.id, "-") = 0 \/ Count(arg.id, ":") = 0)) =>
    /\ _int_from_update(arg.id).raised = "ValueError"
    /\ ret = Raise("ValueError")
    /\ pc = "aborted"
    /\ error = "ValueError"
    /\ disk = EmptyDB

(* A code with '-' and without ':' has been refused *)
C15_Witness ==
  /\ pc = "aborted"
  /\ arg.id = RHSA \o << "-" >> \o Y2016 \o N2872
  /\ RestReturns(arg)
  /\ error = "ValueError"

(* The type the claim gives for a prefix *)
TypeOf(code) ==
  IF PrefixOf(code) = RHSA THEN "security"
  ELSE IF PrefixOf(code) = RHBA THEN "bug" ELSE "enhancement"

(* C16: the update made of a raw update with prefix RHSA, RHBA or RHEA has *)
(* the type security, bug or enhancement, the id of its code, and the code *)
(* as its advisory.                                                        *)
C16_TypeIdAdvisory ==
  (Converted /\ WellFormed(arg.id) /\ KnownPrefix(arg.id) /\ RestReturns(arg)) =>
    /\ ret.raised = "none"
    /\ ret.value.type = TypeOf(arg.id)
    /\ ret.value.id = IdDigits(arg.id)
    /\ ret.value.advisory = arg.id

(* ---- properties of the dates ---- *)

(* The day of March 2017 a date string of the model names *)
DayOf(date_s) ==
  CHOOSE d \in 1..MaxDay : date_s \in { IsoDate(d), UsDate(d) }

(* C30: with end given, in_last_x_weeks is true exactly when the date is   *)
(* later than end minus ago weeks and not later than end, whatever the     *)
(* current time is.                                                        *)
C30_InLastWeeksOfEnd ==
  (pc = "returned" /\ Has(arg, "end")) =>
    (ret <=> /\ DayOf(arg.end) - 7 * arg.ago < DayOf(arg.date_s)
             /\ DayOf(arg.date_s) <= DayOf(arg.end))

(* ---- properties of the references ---- *)

RefsReturned == pc = "returned" /\ ret.raised = "none"

(* The raw references of a list node, and those the normalizer keeps *)
Entries == [n \in DOMAIN arg.v |-> arg.v[n].reference]
HasIdAndType(ref) == Has(ref, "id") /\ Has(ref, "type")
IsSelf(ref) == Has(ref, "type") /\ ref.type = "self"
IsClassification(ref) == Has(ref, "id") /\ ref.id = "classification"
Kept ==
  SelectSeq(Entries, LAMBDA r : HasIdAndType(r) /\ ~ IsSelf(r)
                                  /\ ~ IsClassification(r))

(* The store after an update with the references refs has been saved *)
StoreWith(refs) ==
  SaveOne([id |-> << "1" >>, title |-> "t", severity |-> None,
           pkglist |-> << >>, references |-> refs, repos |-> << >>]).disk

(* C21: no reference of type self and none with the id "classification"   *)
(* is among the references of the update, nor in the refs and update_refs *)
(* tables once the update is saved.                                       *)
C21_NoSelfNoClassification ==
  RefsReturned =>
    LET out == ret.value.references
        db == StoreWith(out)
    IN  /\ \A n \in DOMAIN out : ~ IsSelf(out[n]) /\ ~ IsClassification(out[n])
        /\ \A n \in DOMAIN db.refs :
             db.refs[n].id \notin { "classification", Self.id }
        /\ \A n \in DOMAIN db.update_refs :
             db.update_refs[n].rid \notin { "classification", Self.id }

(* A reference to the update itself and a CVE: the CVE alone is kept *)
C21_Witness ==
  /\ RefsReturned
  /\ arg = List(<< [reference |-> Self], [reference |-> Cve1] >>)
  /\ ret.value.references = << Cve1 >>
  /\ Len(StoreWith(ret.value.references).refs) = 1

(* The reference the claim gives for a kept reference of type other *)
Reclassified(ref) ==
  IF ref.href = ErrataUrl
  THEN [ref EXCEPT !.type = "errata", !.title = "RHSA-2016:2872",
                   !.id = "1000201628720"]
  ELSE ref

RECURSIVE IsSubSeq(_, _)
(* a is b with some of its elements left out *)
IsSubSeq(a, b) ==
  IF a = << >> THEN TRUE
  ELSE IF b = << >> THEN FALSE
  ELSE IF Head(a) = Head(b) THEN IsSubSeq(Tail(a), Tail(b))
  ELSE IsSubSeq(a, Tail(b))

(* C23: cves holds the references of type cve and bzs those of type       *)
(* bugzilla, each in the order of the references; no reference is in both *)
(* lists.                                                                 *)
C23_CvesAndBzs ==
  RefsReturned =>
    LET out == ret.value.references
        cves == ret.value.cves
        bzs == ret.value.bzs
    IN  /\ IsSubSeq(cves, out) /\ IsSubSeq(bzs, out)
        /\ \A n \in DOMAIN cves : cves[n].type = "cve"
        /\ \A n \in DOMAIN bzs : bzs[n].type = "bugzilla"
        /\ Len(cves) = Cardinality({ n \in DOMAIN out : out[n].type = "cve" })
        /\ Len(bzs) = Cardinality({ n \in DOMAIN out : out[n].type = "bugzilla" })
        /\ \A m \in DOMAIN cves, n \in DOMAIN bzs : cves[m] # bzs[n]

C23_Witness ==
  /\ RefsReturned
  /\ Len(ret.value.references) = 2
  /\ ret.value.references[1].type = "bugzilla"
  /\ ret.value.references[2].type = "cve"
  /\ ret.value.cves = << ret.value.references[2] >>
  /\ ret.value.bzs = << ret.value.references[1] >>

(* C29: a references node that is not a list gives no references, no cves *)
(* and no bzs; from a list no entry without id or without type comes out. *)
C29_SingleObjectGivesNothing ==
  pc = "returned" =>
    /\ arg.kind # "list" =>
         ret = Return([references |-> << >>, cves |-> << >>, bzs |-> << >>])
    /\ (arg.kind = "list" /\ ret.raised = "none") =>
         /\ \A n \in DOMAIN ret.value.references :
              HasIdAndType(ret.value.references[n])
         /\ Len(ret.value.references)
              <= Cardinality({ n \in DOMAIN Entries : HasIdAndType(Entries[n]) })

(* A single CVE reference has been dropped *)
C29_Witness ==
  /\ pc = "returned"
  /\ arg = Dict([reference |-> Cve1])
  /\ ret.value.cves = << >>

(* ---- properties of the steps of the normalizer ---- *)

(* C24: the update carries exactly one repository link, with the id of    *)
(* the update and, as repo_id, the short name of the package collection   *)
(* if it has one that is not empty, else the repository the caller gave.  *)
C24_OneRepoLink ==
  (pc = "returned" /\ ret.raised = "none") =>
    LET pkc == arg.upd.pkglist.collection
    IN  /\ Len(ret.value.repos) = 1
        /\ ret.value.repos[1].uid = ret.value.id
        /\ ret.value.repos[1].uid = arg.upd.id.v
        /\ ret.value.repos[1].repo_id =
             IF Has(pkc, "short") /\ pkc.short # "" THEN pkc.short ELSE arg.repo

(* The short name has overridden the repository of the caller *)
C24_Witness ==
  /\ pc = "returned" /\ ret.raised = "none"
  /\ arg.repo = "beta"
  /\ Get(arg.upd.pkglist.collection, "short") = "x"
  /\ ret.value.repos
       = << [uid |-> IdDigits(Code(RHSA, Y2016, N2872)), repo_id |-> "x",
             repo_name |-> "Alpha repo"] >>

(* C25: an update without package list and an update without references   *)
(* node both raise the ValueError of a corrupt update, and no update is    *)
(* yielded.                                                                *)
C25_MissingNodeIsCorrupt ==
  (pc = "returned"
     /\ (~ Has(arg.upd, "pkglist") \/ ~ Has(arg.upd, "references"))) =>
    ret.raised = "ValueError"

Unavailable(r) == source[r] # "found"

RECURSIVE Without(_)
(* The caller's list with the unavailable repositories removed *)
Without(lst) ==
  IF lst = << >> THEN << >>
  ELSE IF Unavailable(Head(lst)) THEN Without(Tail(lst))
  ELSE << Head(lst) >> \o Without(Tail(lst))

RECURSIVE MergeFrom(_, _)
MergeFrom(tbl, lst) ==
  IF lst = << >> THEN tbl
  ELSE MergeFrom(MergeRepo(tbl, convert_uixmlgz(Head(lst))), Tail(lst))

(* What _load_and_merge_repos_data returns for a list of repositories *)
MergedOf(lst) ==
  IF lst = << >> THEN << >>
  ELSE LET tbl == MergeFrom(DictById(convert_uixmlgz(Head(lst))), Tail(lst))
       IN  SortById({ tbl[x] : x \in DOMAIN tbl })

JoinTables == {"update_packages", "update_refs", "update_repos"}

(* Every row the foreign keys of the table name refer to is in db *)
ParentsIn(db, name, row) ==
  \A fk \in ForeignKeys(name) : HasId(db[fk[2]], row[fk[1]])

(* Every join row of db refers to rows of db *)
Referential(db) ==
  \A name \in JoinTables :
    \A n \in DOMAIN db[name] : ParentsIn(db, name, db[name][n])

(* C28: every join row refers to an update row and to a package or         *)
(* reference row of the same store, committed or not, after a run that     *)
(* succeeded as at any other time; and when a join row is about to be      *)
(* inserted the rows it refers to have been inserted already.              *)
C28_JoinRowsHaveParents ==
  /\ Referential(conn)
  /\ Referential(disk)
  /\ pc = "pkg_rel" =>
       /\ HasId(conn.updates, merged[k].id)
       /\ HasId(conn.packages, merged[k].pkglist[j].id)
  /\ pc = "ref_rel" =>
       /\ HasId(conn.updates, merged[k].id)
       /\ HasId(conn.refs, merged[k].references[j].id)
  /\ pc = "ins_repo" => HasId(conn.updates, merged[k].id)

(* A run has succeeded and committed rows in each of the join tables *)
C28_Witness ==
  /\ pc = "done" /\ error = "none"
  /\ \A name \in JoinTables : Len(disk[name]) >= 1
  /\ Referential(disk)
====
